---------------------------- MODULE Spec2Model ----------------------------
(***************************************************************************)
(* A model of the Redis-backed store of an Interledger connector            *)
(* (crates/interledger-store-redis/src/store.rs): the balance ledger, the   *)
(* account repository and the routing table cache.                          *)
(*                                                                          *)
(* The backend is modelled by the keys the store uses; one Redis command,   *)
(* one Lua script (EVAL) and one MULTI/EXEC pipeline are each one step of   *)
(* the backend, and the steps of different callers interleave freely.       *)
(*                                                                          *)
(* Integer widths are scaled down: WordBits stands for the 64 bits of       *)
(* u64/i64, MantissaBits for the 53 significant bits of a Lua number        *)
(* (an IEEE double) and FormatLimit for the 10^17 from which the "%.17g"    *)
(* rendering of a Lua number is no longer an integer literal.  The order    *)
(* 2^MantissaBits < FormatLimit < 2^(WordBits-1) is that of the program.    *)
(***************************************************************************)
EXTENDS Integers, Sequences, FiniteSets, TLC

VARIABLES
    next_account_id,   \* key next_account_id (0 while the key is absent)
    accounts,          \* keys accounts:<id>: id -> account record
    balances,          \* keys balances:<asset>: <<asset, id>> -> integer
    btp_auth,          \* hash btp_auth: token -> id
    http_auth,         \* hash http_auth: token -> id
    xrp_addresses,     \* hash xrp_addresses: address -> id
    send_routes_to,    \* set send_routes_to
    routes,            \* hash routes: prefix -> id
    static_routes,     \* hash routes:static: prefix -> id
    rates,             \* hash rates: asset code -> rate, as text
    routing_table,     \* RedisStore.routes, the in-process cache
    exchange_rates,    \* RedisStore.exchange_rates, the in-process cache
    connection,        \* RedisStore.connection: held or dropped by its owners
    task,              \* the futures in flight: task name -> its position and locals
    issued,            \* history: the ids get_next_account_id handed out, in order
    last,              \* history: the balance call the backend executed last
    pending            \* history: a successful transfer whose undo is awaited

vars == <<next_account_id, accounts, balances, btp_auth, http_auth,
          xrp_addresses, send_routes_to, routes, static_routes, rates,
          routing_table, exchange_rates, connection, task, issued, last,
          pending>>

backend == <<next_account_id, accounts, balances, btp_auth, http_auth,
             xrp_addresses, send_routes_to, routes, static_routes, rates>>

---------------------------------------------------------------------------
(* Option<T>: None is the empty sequence, Some(x) the sequence <<x>>. *)
None == << >>
Some(x) == <<x>>
IsSome(o) == Len(o) = 1
Unwrap(o) == o[1]

(* The empty hash, and a hash with one field set (HSET). *)
EmptyMap == << >>
HSet(h, k, v) == (k :> v) @@ h

---------------------------------------------------------------------------
(* Number representations *)

WordBits == 4
MantissaBits == 2
FormatLimit == 6

RECURSIVE Pow2(_)
Pow2(k) == IF k = 0 THEN 1 ELSE 2 * Pow2(k - 1)

U64Max == Pow2(WordBits) - 1
I64Max == Pow2(WordBits - 1) - 1
I64Min == 0 - Pow2(WordBits - 1)

(* `x as i64` on a u64: the same bits read as two's complement. *)
AsI64(x) == IF x > I64Max THEN x - Pow2(WordBits) ELSE x

(* i64 subtraction as a release build computes it (wrapping). *)
WrappingSub(a, b) ==
    LET d == a - b
    IN  IF d > I64Max THEN d - Pow2(WordBits)
        ELSE IF d < I64Min THEN d + Pow2(WordBits) ELSE d

(* The nearest double of a non-negative integer: exact below 2^MantissaBits,
   beyond that rounded to MantissaBits significant bits, ties to even. *)
RoundMagnitude(a) ==
    LET e == CHOOSE k \in 0..(2 * WordBits) :
                 /\ a < Pow2(MantissaBits + k)
                 /\ (k = 0 \/ a >= Pow2(MantissaBits + k - 1))
        u == Pow2(e)
        q == a \div u
        r == a % u
    IN  IF 2 * r > u \/ (2 * r = u /\ q % 2 = 1) THEN (q + 1) * u ELSE q * u

(* Lua's tonumber on a decimal integer string. *)
tonumber(n) == IF n < 0 THEN 0 - RoundMagnitude(0 - n) ELSE RoundMagnitude(n)

(* Addition of two Lua numbers. *)
LuaAdd(a, b) == tonumber(a + b)

(* A Lua number handed to redis.call is rendered with "%.17g": an integer
   literal below FormatLimit in magnitude, an exponent form from there on. *)
IsIntegerLiteral(v) == v < FormatLimit /\ 0 - v < FormatLimit

---------------------------------------------------------------------------
(* Keys *)

(* to_lowercase / string.lower on the asset codes in use *)
to_lowercase(s) == IF s = "USD" THEN "usd" ELSE s

balance_key(asset_code, id) == <<to_lowercase(asset_code), id>>

(* HINCRBY key field incr: a missing field counts as 0; the command fails,
   writing nothing, when the result leaves the signed 64-bit range. *)
HINCRBY(bal, key, incr) ==
    LET cur == IF key \in DOMAIN bal THEN bal[key] ELSE 0
        new == cur + incr
    IN  IF new > I64Max \/ new < I64Min
        THEN [err |-> TRUE, bal |-> bal]
        ELSE [err |-> FALSE, bal |-> HSet(bal, key, new)]

---------------------------------------------------------------------------
(* Balance ledger *)

Error(bal) == [ok |-> FALSE, bal |-> bal]

(* HGET accounts:<from_id> min_balance: the field, when the record has it. *)
HGetMinBalance(accts, from_id) ==
    IF from_id \in DOMAIN accts THEN accts[from_id].min_balance ELSE None

(* Lines 40-47 of the script: TRUE when the script raises its error. *)
BelowMinBalance(bal, min_balance, from_key, from_amount) ==
    IF from_key \notin DOMAIN bal
    THEN TRUE   \* tonumber(false) is nil, and comparing nil raises
    ELSE tonumber(bal[from_key]) < LuaAdd(tonumber(min_balance), from_amount)

(* Lines 48-49 of the script: the two increments.  An error of redis.call
   ends the script where it stands; what was written stays written. *)
ScriptIncrements(bal, from_key, from_amount, to_key, to_amount) ==
    LET decr   == 0 - from_amount
        first  == IF IsIntegerLiteral(decr)
                  THEN HINCRBY(bal, from_key, decr)
                  ELSE [err |-> TRUE, bal |-> bal]
        second == IF IsIntegerLiteral(to_amount)
                  THEN HINCRBY(first.bal, to_key, to_amount)
                  ELSE [err |-> TRUE, bal |-> first.bal]
    IN  IF first.err THEN Error(bal)
        ELSE [ok |-> ~second.err, bal |-> second.bal]

(* The script UPDATE_BALANCES, run by EVAL as one step of the backend. *)
UPDATE_BALANCES(bal, accts, from_asset, from_id, incoming, to_asset, to_id, outgoing) ==
    LET from_key    == balance_key(from_asset, from_id)
        from_amount == tonumber(incoming)
        to_key      == balance_key(to_asset, to_id)
        to_amount   == tonumber(outgoing)
        min_balance == HGetMinBalance(accts, from_id)
    IN  IF /\ IsSome(min_balance)
           /\ BelowMinBalance(bal, Unwrap(min_balance), from_key, from_amount)
        THEN Error(bal)
        ELSE ScriptIncrements(bal, from_key, from_amount, to_key, to_amount)

(* `0i64 - outgoing_amount as i64`: the values a build can compute.  The
   subtraction overflows for one operand; a release build wraps, a debug
   build panics before any command is sent (None). *)
UndoDecrement(outgoing) ==
    LET v == AsI64(outgoing)
    IN  IF v = I64Min THEN {None, Some(WrappingSub(0, v))} ELSE {Some(0 - v)}

(* The MULTI/EXEC pipeline of undo_balance_update: both HINCRBY run, each
   on its own; the reply is an error when either failed. *)
UndoPipeline(bal, from_key, from_incr, to_key, to_incr) ==
    LET first  == HINCRBY(bal, from_key, from_incr)
        second == HINCRBY(first.bal, to_key, to_incr)
    IN  [ok |-> ~first.err /\ ~second.err, bal |-> second.bal]

(* The (incoming_amount, outgoing_amount) pairs the callers use. *)
AmountPairs == {<<3, 3>>, <<4, 4>>, <<5, 4>>, <<9, 1>>, <<1, 8>>}

Executed(op, from, to, amounts, ok, pre) ==
    [op |-> op, from |-> from, to |-> to,
     incoming_amount |-> amounts[1], outgoing_amount |-> amounts[2],
     ok |-> ok, pre |-> pre]

(* update_balances: its EVAL is the one step it takes at the backend, so
   concurrent calls are these steps in the order the backend runs them. *)
update_balances(from, to, amounts) ==
    LET res == UPDATE_BALANCES(balances, accounts,
                               accounts[from].asset_code, from, amounts[1],
                               accounts[to].asset_code, to, amounts[2])
    IN  /\ balances' = res.bal
        /\ last' = Executed("update_balances", from, to, amounts, res.ok, balances)
        /\ UNCHANGED <<next_account_id, accounts, btp_auth, http_auth,
                       xrp_addresses, send_routes_to, routes, static_routes,
                       routing_table, task, issued,
                   rates, exchange_rates, connection>>

(* undo_balance_update: its pipeline is the one step it takes at the backend
   (none when the call panicked while building it). *)
undo_balance_update(from, to, amounts) ==
    /\ \E to_incr \in UndoDecrement(amounts[2]) :
           LET res == IF IsSome(to_incr)
                      THEN UndoPipeline(balances,
                               balance_key(accounts[from].asset_code, from),
                               AsI64(amounts[1]),
                               balance_key(accounts[to].asset_code, to),
                               Unwrap(to_incr))
                      ELSE Error(balances)
           IN  /\ balances' = res.bal
               /\ last' = Executed("undo_balance_update", from, to, amounts,
                                   res.ok, balances)
    /\ UNCHANGED <<next_account_id, accounts, btp_auth, http_auth,
                   xrp_addresses, send_routes_to, routes, static_routes,
                   routing_table, task, issued,
                   rates, exchange_rates, connection>>

---------------------------------------------------------------------------
(* Tasks: the futures of the callers and of the polling loop *)

MaxAccounts == 2

Returned(result) == [pc |-> "idle", result |-> result]

(* The error a static route call returns when an account has no record. *)
Rejected(op) == [pc |-> "idle", result |-> "Err", op |-> op]

(* HashMap::from_iter over the dynamic routes chained with the static ones:
   a later pair replaces an earlier one with the same prefix. *)
MergeRoutes(dynamic, static) == static @@ dynamic

(* update_routes, its pipeline: HGETALL routes, HGETALL routes:static.  The
   tasks share the store's one connection, which carries the two commands
   back to back, so no command of another task runs between them.  The task
   keeps the table its closure builds from the two replies. *)
UpdateRoutesQuery(t) ==
    /\ task[t].pc = "update_routes"
    /\ task' = [task EXCEPT ![t] =
                   [pc |-> "write_cache",
                    table |-> MergeRoutes(routes, static_routes)]]
    /\ UNCHANGED <<backend, routing_table, issued, last,
                   exchange_rates, connection, pending>>

(* update_routes when its query fails: map_err makes the error Err(()), the
   closure does not run and the cache stays as it is. *)
UpdateRoutesQueryFails(t) ==
    /\ task[t].pc = "update_routes"
    /\ task' = [task EXCEPT ![t] = Returned("Err")]
    /\ UNCHANGED <<backend, routing_table, issued, last,
                   exchange_rates, connection, pending>>

(* update_routes, its closure: the cache is replaced as a whole. *)
UpdateRoutesWriteCache(t) ==
    /\ task[t].pc = "write_cache"
    /\ routing_table' = task[t].table
    /\ task' = [task EXCEPT ![t] = Returned("Ok")]
    /\ UNCHANGED <<backend, issued, last,
                   exchange_rates, connection, pending>>

update_routes(t) ==
    \/ UpdateRoutesQuery(t)
    \/ UpdateRoutesQueryFails(t)
    \/ UpdateRoutesWriteCache(t)

---------------------------------------------------------------------------
(* Account repository *)

Details(ilp_address, btp, http, xrp, send_routes) ==
    [asset_code |-> "USD", min_balance |-> None, ilp_address |-> ilp_address,
     btp_incoming_authorization |-> btp, http_incoming_authorization |-> http,
     xrp_address |-> xrp, send_routes |-> send_routes]

(* The registrations the callers of insert_account submit. *)
AccountDetails ==
    { Details("g.a", Some("b1"), None, None, TRUE),
      Details("g.a", None, None, Some("x1"), FALSE),
      Details("g.b", Some("b1"), Some("h1"), Some("x1"), TRUE),
      Details("g.a", None, Some("h1"), Some("x1"), FALSE),
      Details("g.b", None, None, None, FALSE) }

(* A counter that is read and not incremented. *)
INCR_ReadOnly(counter) == counter

(* INCR next_account_id, and the id get_next_account_id makes of its reply. *)
INCR(counter) == counter + 1
get_next_account_id(counter) == INCR(counter) - 1

(* Existence checks that look at the id and the balance alone. *)
ExistenceChecks_IdOnly(id, d) ==
    <<id \in DOMAIN accounts, balance_key(d.asset_code, id) \in DOMAIN balances>>

(* Names pushed for every optional field, present or absent. *)
ExistenceKeys_AllFields(d) ==
    <<"ID", "ID", "BTP auth", "HTTP auth", "XRP address">>

(* The existence checks of insert_account, in the order of its pipeline,
   and the name kept for each. *)
ExistenceChecks(id, d) ==
    <<id \in DOMAIN accounts, balance_key(d.asset_code, id) \in DOMAIN balances>>
    \o (IF IsSome(d.btp_incoming_authorization)
        THEN <<Unwrap(d.btp_incoming_authorization) \in DOMAIN btp_auth>> ELSE << >>)
    \o (IF IsSome(d.http_incoming_authorization)
        THEN <<Unwrap(d.http_incoming_authorization) \in DOMAIN http_auth>> ELSE << >>)
    \o (IF IsSome(d.xrp_address)
        THEN <<Unwrap(d.xrp_address) \in DOMAIN xrp_addresses>> ELSE << >>)

ExistenceKeys(d) ==
    <<"ID", "ID">>
    \o (IF IsSome(d.btp_incoming_authorization) THEN <<"BTP auth">> ELSE << >>)
    \o (IF IsSome(d.http_incoming_authorization) THEN <<"HTTP auth">> ELSE << >>)
    \o (IF IsSome(d.xrp_address) THEN <<"XRP address">> ELSE << >>)

(* results.iter().position(|val| *val): the first check that is true. *)
Position(results) ==
    IF \E i \in 1..Len(results) : results[i]
    THEN Some(CHOOSE i \in 1..Len(results) :
                  results[i] /\ \A j \in 1..(i - 1) : ~results[j])
    ELSE None

(* insert_account, its first step: the id is allocated and Account::try_from
   builds the account, or refuses the details. *)
InsertAccountAllocate(t, details) ==
    /\ task[t].pc = "idle"
    /\ next_account_id < MaxAccounts
    /\ next_account_id' = INCR(next_account_id)
    /\ issued' = Append(issued, get_next_account_id(next_account_id))
    /\ \E d \in details, valid \in BOOLEAN :
           task' = [task EXCEPT ![t] =
                       IF valid
                       THEN [pc |-> "check", details |-> d,
                             id |-> get_next_account_id(next_account_id)]
                       ELSE Returned("Err")]
    /\ UNCHANGED <<accounts, balances, btp_auth, http_auth, xrp_addresses,
                   send_routes_to, routes, static_routes, routing_table, last,
                   rates, exchange_rates, connection, pending>>

(* insert_account, its second step: the pipeline of existence checks. *)
InsertAccountCheck(t) ==
    /\ task[t].pc = "check"
    /\ LET index == Position(ExistenceChecks(task[t].id, task[t].details))
       IN  task' = [task EXCEPT ![t] =
                       IF IsSome(index)
                       THEN [pc |-> "idle", result |-> "Err",
                             conflict |-> ExistenceKeys(task[t].details)[Unwrap(index)],
                             details |-> task[t].details]
                       ELSE [pc |-> "write", details |-> task[t].details,
                             id |-> task[t].id]]
    /\ UNCHANGED <<backend, routing_table, issued, last,
                   exchange_rates, connection, pending>>

(* Writes that store the account record and nothing else. *)
InsertAccountWrite_RecordOnly(t) ==
    /\ task[t].pc = "write"
    /\ accounts' = HSet(accounts, task[t].id, task[t].details)
    /\ task' = [task EXCEPT ![t] = [pc |-> "update_routes"]]
    /\ UNCHANGED <<next_account_id, balances, btp_auth, http_auth,
                   xrp_addresses, send_routes_to, routes, static_routes, rates,
                   routing_table, exchange_rates, connection, issued, last, pending>>

(* insert_account, its third step: the MULTI/EXEC pipeline of writes. *)
InsertAccountWrite(t) ==
    LET d  == task[t].details
        id == task[t].id
    IN  /\ task[t].pc = "write"
        /\ balances' = HSet(balances, balance_key(d.asset_code, id), 0)
        /\ btp_auth' = IF IsSome(d.btp_incoming_authorization)
                       THEN HSet(btp_auth, Unwrap(d.btp_incoming_authorization), id)
                       ELSE btp_auth
        /\ http_auth' = IF IsSome(d.http_incoming_authorization)
                        THEN HSet(http_auth, Unwrap(d.http_incoming_authorization), id)
                        ELSE http_auth
        /\ xrp_addresses' = IF IsSome(d.xrp_address)
                            THEN HSet(xrp_addresses, Unwrap(d.xrp_address), id)
                            ELSE xrp_addresses
        /\ send_routes_to' = IF d.send_routes
                             THEN send_routes_to \cup {id} ELSE send_routes_to
        /\ routes' = HSet(routes, d.ilp_address, id)
        /\ accounts' = HSet(accounts, id, d)
        /\ task' = [task EXCEPT ![t] = [pc |-> "update_routes"]]
        /\ UNCHANGED <<next_account_id, static_routes, routing_table,
                       issued, last,
                   rates, exchange_rates, connection, pending>>

insert_account(t, details) ==
    \/ InsertAccountAllocate(t, details)
    \/ InsertAccountCheck(t)
    \/ InsertAccountWrite(t)
    \/ update_routes(t)

(* HGETALL accounts:<id>: the record, or the empty reply of a missing key. *)
HGETALL(id) == IF id \in DOMAIN accounts THEN Some(accounts[id]) ELSE None

(* The replies read as Vec<Account>: the records the replies resolve to. *)
ResolvedAccounts(replies) == SelectSeq(replies, IsSome)

(* The id lists the callers of get_accounts ask for. *)
AccountIdLists == {<<0>>, <<1>>, <<0, 1>>, <<1, 0>>, <<0, 0>>, <<0, MaxAccounts>>}

(* get_accounts without the comparison of the counts. *)
get_accounts_NoCountCheck(account_ids) ==
    LET replies  == [i \in 1..Len(account_ids) |-> HGETALL(account_ids[i])]
        resolved == ResolvedAccounts(replies)
    IN  [result |-> "Ok", accounts |-> [i \in 1..Len(resolved) |-> Unwrap(resolved[i])]]

(* get_accounts: one HGETALL per requested id, then the count is compared. *)
get_accounts(account_ids) ==
    LET num_accounts == Len(account_ids)
        replies  == [i \in 1..num_accounts |-> HGETALL(account_ids[i])]
        resolved == ResolvedAccounts(replies)
    IN  IF Len(resolved) = num_accounts
        THEN [result |-> "Ok", accounts |-> [i \in 1..Len(resolved) |-> Unwrap(resolved[i])]]
        ELSE [result |-> "Err", accounts |-> << >>]

GetAccounts(t) ==
    /\ task[t].pc = "idle"
    /\ \E account_ids \in AccountIdLists :
           LET r == get_accounts(account_ids)
           IN  task' = [task EXCEPT ![t] =
                           [pc |-> "idle", result |-> r.result,
                            account_ids |-> account_ids, accounts |-> r.accounts]]
    /\ UNCHANGED <<backend, routing_table, issued, last,
                   exchange_rates, connection, pending>>

(* The ACCOUNT_FROM_INDEX script: HGET index token, nil when the index has
   no such token, else HGETALL accounts:<id>, the record of that id. *)
ACCOUNT_FROM_INDEX(index, token) ==
    IF token \in DOMAIN index
    THEN IF IsSome(HGETALL(index[token]))
         THEN Some([id |-> index[token], details |-> Unwrap(HGETALL(index[token]))])
         ELSE None
    ELSE None

(* The tokens the callers of the credential lookups present. *)
BtpTokens == {"b1", "zz"}
HttpTokens == {"h1", "zz"}

(* The future of a credential lookup resolved: Ok(account) or Err(()). *)
LookedUp(index_name, token, account) ==
    [pc |-> "idle", result |-> IF IsSome(account) THEN "Ok" ELSE "Err",
     index |-> index_name, token |-> token, account |-> account]

get_account_from_btp_token(t) ==
    /\ task[t].pc = "idle"
    /\ \E token \in BtpTokens :
           task' = [task EXCEPT ![t] =
                       LookedUp("btp_auth", token, ACCOUNT_FROM_INDEX(btp_auth, token))]
    /\ UNCHANGED <<backend, routing_table, exchange_rates, connection,
                   issued, last, pending>>

get_account_from_http_auth(t) ==
    /\ task[t].pc = "idle"
    /\ \E auth_header \in HttpTokens :
           task' = [task EXCEPT ![t] =
                       LookedUp("http_auth", auth_header,
                                ACCOUNT_FROM_INDEX(http_auth, auth_header))]
    /\ UNCHANGED <<backend, routing_table, exchange_rates, connection,
                   issued, last, pending>>

---------------------------------------------------------------------------
(* Routing table *)

Prefixes == {"g.a", "g.b"}

(* An account id no registration was given. *)
MissingAccount == MaxAccounts + 7

(* An EXISTS that answers 1 for every key. *)
EXISTS_Always(account_id) == TRUE

(* EXISTS accounts:<id> *)
EXISTS(account_id) == account_id \in DOMAIN accounts

(* HMSET key pairs without the DEL before it. *)
ReplaceTable_NoDel(table, pairs) ==
    IF pairs = EmptyMap THEN [ok |-> FALSE, table |-> table]
    ELSE [ok |-> TRUE, table |-> pairs @@ table]

(* DEL key followed by HMSET key pairs in one MULTI/EXEC.  HMSET without a
   pair is refused when it is queued, and EXEC then runs neither command. *)
ReplaceTable(table, pairs) ==
    IF pairs = EmptyMap THEN [ok |-> FALSE, table |-> table]
    ELSE [ok |-> TRUE, table |-> pairs]

(* The tables the callers of set_routes pass (prefix -> id of the account). *)
RouteTables == {("g.a" :> 1), ("g.a" :> 0) @@ ("g.b" :> 1)}

(* The tables the callers of set_static_routes pass. *)
StaticRouteTables ==
    {EmptyMap, ("g.b" :> 0), ("g.a" :> 0) @@ ("g.b" :> MissingAccount)}

(* set_routes: the dynamic table is replaced, then the cache refreshed. *)
SetRoutes(t) ==
    /\ task[t].pc = "idle"
    /\ \E new_routes \in RouteTables :
           LET res == ReplaceTable(routes, new_routes)
           IN  /\ routes' = res.table
               /\ task' = [task EXCEPT ![t] =
                              IF res.ok THEN [pc |-> "update_routes"]
                              ELSE Returned("Err")]
    /\ UNCHANGED <<next_account_id, accounts, balances, btp_auth, http_auth,
                   xrp_addresses, send_routes_to, static_routes, routing_table,
                   issued, last,
                   rates, exchange_rates, connection, pending>>

set_routes(t) == SetRoutes(t) \/ update_routes(t)

(* set_static_route is called: EXISTS accounts:<account_id> is on its way. *)
CallSetStaticRoute(t) ==
    /\ task[t].pc = "idle"
    /\ \E prefix \in Prefixes, account_id \in {0, MissingAccount} :
           task' = [task EXCEPT ![t] =
                       [pc |-> "static_route_exists", prefix |-> prefix,
                        account_id |-> account_id]]
    /\ UNCHANGED <<backend, routing_table, issued, last,
                   exchange_rates, connection, pending>>

(* set_static_route: the reply of EXISTS decides. *)
SetStaticRouteExists(t) ==
    /\ task[t].pc = "static_route_exists"
    /\ task' = [task EXCEPT ![t] =
                   IF EXISTS(task[t].account_id)
                   THEN [pc |-> "static_route_hset", prefix |-> task[t].prefix,
                         account_id |-> task[t].account_id]
                   ELSE Rejected("set_static_route")]
    /\ UNCHANGED <<backend, routing_table, issued, last,
                   exchange_rates, connection, pending>>

(* set_static_route: HSET routes:static prefix account_id. *)
SetStaticRouteHSet(t) ==
    /\ task[t].pc = "static_route_hset"
    /\ static_routes' = HSet(static_routes, task[t].prefix, task[t].account_id)
    /\ task' = [task EXCEPT ![t] = [pc |-> "update_routes"]]
    /\ UNCHANGED <<next_account_id, accounts, balances, btp_auth, http_auth,
                   xrp_addresses, send_routes_to, routes, routing_table,
                   issued, last,
                   rates, exchange_rates, connection, pending>>

set_static_route(t) ==
    \/ CallSetStaticRoute(t)
    \/ SetStaticRouteExists(t)
    \/ SetStaticRouteHSet(t)
    \/ update_routes(t)

(* The account ids a table refers to. *)
ReferencedAccounts(table) == {table[p] : p \in DOMAIN table}

(* set_static_routes is called: one EXISTS per distinct account id. *)
CallSetStaticRoutes(t) ==
    /\ task[t].pc = "idle"
    /\ \E new_routes \in StaticRouteTables :
           task' = [task EXCEPT ![t] =
                       [pc |-> "static_routes_exist", routes |-> new_routes]]
    /\ UNCHANGED <<backend, routing_table, issued, last,
                   exchange_rates, connection, pending>>

(* set_static_routes: accounts_exist.iter().all(|a| *a) decides. *)
SetStaticRoutesExist(t) ==
    /\ task[t].pc = "static_routes_exist"
    /\ task' = [task EXCEPT ![t] =
                   IF \A a \in ReferencedAccounts(task[t].routes) : EXISTS(a)
                   THEN [pc |-> "static_routes_replace", routes |-> task[t].routes]
                   ELSE Rejected("set_static_routes")]
    /\ UNCHANGED <<backend, routing_table, issued, last,
                   exchange_rates, connection, pending>>

(* set_static_routes: the static table is replaced.  deleted keeps, until
   the refresh starts, the table that was there before. *)
SetStaticRoutesReplace(t) ==
    /\ task[t].pc = "static_routes_replace"
    /\ LET res == ReplaceTable(static_routes, task[t].routes)
       IN  /\ static_routes' = res.table
           /\ task' = [task EXCEPT ![t] =
                          IF res.ok
                          THEN [pc |-> "update_routes", deleted |-> static_routes]
                          ELSE Returned("Err")]
    /\ UNCHANGED <<next_account_id, accounts, balances, btp_auth, http_auth,
                   xrp_addresses, send_routes_to, routes, routing_table,
                   issued, last,
                   rates, exchange_rates, connection, pending>>

set_static_routes(t) ==
    \/ CallSetStaticRoutes(t)
    \/ SetStaticRoutesExist(t)
    \/ SetStaticRoutesReplace(t)
    \/ update_routes(t)

(* routing_table(): a copy of the cache. *)
RoutingTableSnapshot == routing_table

(* An upgrade that succeeds whether or not an owner holds the connection. *)
upgrade_Always(conn) == Some(conn)

(* The error of a tick that found the connection closed. *)
ConnectionClosed ==
    [pc |-> "idle", result |-> "Err", cause |-> "connection was closed"]

(* Weak::upgrade: the connection while an owner holds it, else None. *)
upgrade(conn) == IF conn = "held" THEN Some(conn) ELSE None

(* A tick of poll_routes.  for_each runs its closure for the next tick only
   when the future of the tick before did not fail; the closure starts
   update_routes when the connection upgrades and fails otherwise. *)
PollRoutesTick(t) ==
    /\ task[t].pc = "idle"
    /\ task[t].result # "Err"
    /\ task' = [task EXCEPT ![t] =
                   IF IsSome(upgrade(connection))
                   THEN [pc |-> "update_routes"]
                   ELSE ConnectionClosed]
    /\ UNCHANGED <<backend, routing_table, issued, last,
                   exchange_rates, connection, pending>>

poll_routes(t) == PollRoutesTick(t) \/ update_routes(t)

---------------------------------------------------------------------------
(* Exchange rates *)

(* The rates the callers pass, in tenths, and the text an f64 is sent to the
   backend as and is read back from. *)
RateText == (8 :> "0.8") @@ (9 :> "0.9") @@ (10 :> "1")
ToRedisArgs(rate) == RateText[rate]
FromRedisValue(text) == CHOOSE rate \in DOMAIN RateText : RateText[rate] = text

(* The tables the callers of set_rates pass (asset code -> rate). *)
RateTables ==
    {EmptyMap, ("USD" :> 10), ("USD" :> 10) @@ ("EUR" :> 9), ("EUR" :> 8)}

(* update_rates, its query: HGETALL rates.  The task keeps the table its
   closure builds from the reply. *)
UpdateRatesQuery(t) ==
    /\ task[t].pc = "update_rates"
    /\ task' = [task EXCEPT ![t] =
                   [pc |-> "write_rates",
                    table |-> [c \in DOMAIN rates |-> FromRedisValue(rates[c])]]]
    /\ UNCHANGED <<backend, routing_table, exchange_rates, connection,
                   issued, last, pending>>

(* update_rates when its query fails: the closure does not run. *)
UpdateRatesQueryFails(t) ==
    /\ task[t].pc = "update_rates"
    /\ task' = [task EXCEPT ![t] = Returned("Err")]
    /\ UNCHANGED <<backend, routing_table, exchange_rates, connection,
                   issued, last, pending>>

(* update_rates, its closure: the cache is replaced as a whole. *)
UpdateRatesWriteCache(t) ==
    /\ task[t].pc = "write_rates"
    /\ exchange_rates' = task[t].table
    /\ task' = [task EXCEPT ![t] = Returned("Ok")]
    /\ UNCHANGED <<backend, routing_table, connection, issued, last, pending>>

update_rates(t) ==
    \/ UpdateRatesQuery(t)
    \/ UpdateRatesQueryFails(t)
    \/ UpdateRatesWriteCache(t)

(* set_rates: the rate table is replaced, then the cache refreshed. *)
SetRates(t) ==
    /\ task[t].pc = "idle"
    /\ \E new_rates \in RateTables :
           LET res == ReplaceTable(rates,
                          [c \in DOMAIN new_rates |-> ToRedisArgs(new_rates[c])])
           IN  /\ rates' = res.table
               /\ task' = [task EXCEPT ![t] =
                              IF res.ok THEN [pc |-> "update_rates"]
                              ELSE Returned("Err")]
    /\ UNCHANGED <<next_account_id, accounts, balances, btp_auth, http_auth,
                   xrp_addresses, send_routes_to, routes, static_routes,
                   routing_table, exchange_rates, connection, issued, last, pending>>

set_rates(t) == SetRates(t) \/ update_rates(t)

(* The code lists the callers of get_exchange_rates ask for. *)
AssetCodeLists == {<<"USD">>, <<"USD", "EUR">>, <<"EUR", "USD">>}

(* get_exchange_rates is called.  after_ok notes that the caller's last call
   other than get_exchange_rates returned Ok(()). *)
CallGetExchangeRates(t) ==
    /\ task[t].pc = "idle"
    /\ \E asset_codes \in AssetCodeLists :
           task' = [task EXCEPT ![t] =
                       [pc |-> "get_exchange_rates", asset_codes |-> asset_codes,
                        rates |-> << >>,
                        after_ok |-> \/ task[t] = Returned("Ok")
                                     \/ /\ "after_ok" \in DOMAIN task[t]
                                        /\ task[t].after_ok]]
    /\ UNCHANGED <<backend, routing_table, exchange_rates, connection,
                   issued, last, pending>>

(* The closure of filter_map for one code: the rate the cache holds for it
   is kept, a code the cache does not hold is passed over. *)
RatesKept(kept, code) ==
    IF code \in DOMAIN exchange_rates
    THEN Append(kept, exchange_rates[code]) ELSE kept

(* get_exchange_rates: the closure of filter_map takes the read lock, looks
   one code up and releases the lock; after the last code the counts are
   compared. *)
GetExchangeRatesRead(t) ==
    /\ task[t].pc = "get_exchange_rates"
    /\ LET g      == task[t]
           seen   == IF "seen" \in DOMAIN g THEN g.seen ELSE 0
           kept   == RatesKept(g.rates, g.asset_codes[seen + 1])
       IN  task' = [task EXCEPT ![t] =
                       IF seen + 1 < Len(g.asset_codes)
                       THEN [pc |-> "get_exchange_rates",
                             asset_codes |-> g.asset_codes, rates |-> kept,
                             after_ok |-> g.after_ok, seen |-> seen + 1]
                       ELSE [pc |-> "idle",
                             result |-> IF Len(kept) = Len(g.asset_codes)
                                        THEN "Ok" ELSE "Err",
                             asset_codes |-> g.asset_codes,
                             rates |-> IF Len(kept) = Len(g.asset_codes)
                                       THEN kept ELSE << >>,
                             after_ok |-> g.after_ok]]
    /\ UNCHANGED <<backend, routing_table, exchange_rates, connection,
                   issued, last, pending>>

get_exchange_rates(t) == CallGetExchangeRates(t) \/ GetExchangeRatesRead(t)

(* A tick of poll_rates, as a tick of poll_routes. *)
PollRatesTick(t) ==
    /\ task[t].pc = "idle"
    /\ task[t].result # "Err"
    /\ task' = [task EXCEPT ![t] =
                   IF IsSome(upgrade(connection))
                   THEN [pc |-> "update_rates"]
                   ELSE ConnectionClosed]
    /\ UNCHANGED <<backend, routing_table, exchange_rates, connection,
                   issued, last, pending>>

poll_rates(t) == PollRatesTick(t) \/ update_rates(t)

(* The last RedisStore is dropped: no owner holds the connection any more.
   A registration that has not sent its checks holds a clone of the Arc, and
   a get_exchange_rates under way borrows its store. *)
DropStore ==
    /\ connection = "held"
    /\ \A t \in DOMAIN task : task[t].pc \notin {"check", "get_exchange_rates"}
    /\ connection' = "dropped"
    /\ UNCHANGED <<backend, routing_table, exchange_rates, task, issued, last, pending>>

---------------------------------------------------------------------------
(* Specifications *)

Tasks == {"i1", "i2", "a1", "g1", "r1", "q1", "poll_routes", "poll_rates"}

NoCall == [op |-> "none", from |-> 0, to |-> 0, incoming_amount |-> 0,
           outgoing_amount |-> 0, ok |-> FALSE, pre |-> EmptyMap]

(* The store right after connect, on an empty backend. *)
Init ==
    /\ next_account_id = 0
    /\ accounts = EmptyMap
    /\ balances = EmptyMap
    /\ btp_auth = EmptyMap
    /\ http_auth = EmptyMap
    /\ xrp_addresses = EmptyMap
    /\ send_routes_to = {}
    /\ routes = EmptyMap
    /\ static_routes = EmptyMap
    /\ routing_table = EmptyMap
    /\ rates = EmptyMap
    /\ exchange_rates = EmptyMap
    /\ connection = "held"
    /\ task = [t \in Tasks |-> Returned("none")]
    /\ issued = << >>
    /\ last = NoCall
    /\ pending = None

(* Concurrent registrations and lookups by id. *)
NextAccounts ==
    \/ \E t \in {"i1", "i2"} : insert_account(t, AccountDetails)
    \/ GetAccounts("g1")

SpecAccounts == Init /\ [][NextAccounts]_vars

(* Concurrent registrations and lookups by credential. *)
NextLookups ==
    \/ \E t \in {"i1", "i2"} : insert_account(t, AccountDetails)
    \/ get_account_from_btp_token("g1")
    \/ get_account_from_http_auth("g1")

SpecLookups == Init /\ [][NextLookups]_vars

(* One caller making its calls one after another (registrations and route
   administration), beside the polling loop. *)
PlainDetails == {Details("g.a", None, None, None, FALSE)}

NextRoutes ==
    \/ InsertAccountAllocate("a1", PlainDetails)
    \/ InsertAccountCheck("a1")
    \/ InsertAccountWrite("a1")
    \/ SetRoutes("a1")
    \/ CallSetStaticRoute("a1")
    \/ SetStaticRouteExists("a1")
    \/ SetStaticRouteHSet("a1")
    \/ CallSetStaticRoutes("a1")
    \/ SetStaticRoutesExist("a1")
    \/ SetStaticRoutesReplace("a1")
    \/ PollRoutesTick("poll_routes")
    \/ \E t \in {"a1", "poll_routes"} : update_routes(t)

SpecRoutes == Init /\ [][NextRoutes]_vars

(* One caller setting the rates and asking for them, one call after
   another, a second caller asking for rates, and the polling loop. *)
NextRates ==
    \/ set_rates("r1")
    \/ \E t \in {"r1", "q1"} : get_exchange_rates(t)
    \/ poll_rates("poll_rates")

SpecRates == Init /\ [][NextRates]_vars

(* The two polling loops, a caller setting the rates while it holds the
   store, and the drop of the store. *)
NextPolling ==
    \/ poll_rates("poll_rates")
    \/ poll_routes("poll_routes")
    \/ (connection = "held" /\ SetRates("r1"))
    \/ update_rates("r1")
    \/ DropStore

SpecPolling == Init /\ [][NextPolling]_vars

(* The loops under the executor's scheduling: a spawned future that can
   take a step is polled in the end, and the Interval of a loop that has not
   ended yields its next tick. Calls of set_rates are the callers' choice. *)
FairPolling ==
    /\ SpecPolling
    /\ WF_vars(poll_rates("poll_rates"))
    /\ WF_vars(poll_routes("poll_routes"))
    /\ WF_vars(update_rates("r1"))

(* The minimum balances account 0 is registered with. *)
MinBalances == {0, 1}

(* Two registered accounts, as two insert_account calls leave them: account 0
   with a minimum balance, account 1 without. *)
InitBalance ==
    /\ next_account_id = 2
    /\ \E m \in MinBalances :
           accounts = (0 :> [Details("g.a", None, None, None, FALSE)
                                EXCEPT !.min_balance = Some(m)])
                      @@ (1 :> [Details("g.b", None, None, None, FALSE)
                                   EXCEPT !.asset_code = "usd"])
    /\ balances = (balance_key("USD", 0) :> 0) @@ (balance_key("usd", 1) :> 0)
    /\ btp_auth = EmptyMap
    /\ http_auth = EmptyMap
    /\ xrp_addresses = EmptyMap
    /\ send_routes_to = {}
    /\ routes = ("g.a" :> 0) @@ ("g.b" :> 1)
    /\ static_routes = EmptyMap
    /\ routing_table = ("g.a" :> 0) @@ ("g.b" :> 1)
    /\ rates = EmptyMap
    /\ exchange_rates = EmptyMap
    /\ connection = "held"
    /\ task = [t \in Tasks |-> Returned("none")]
    /\ issued = <<0, 1>>
    /\ last = NoCall
    /\ pending = None

Transfers == {<<0, 1>>, <<1, 0>>}

NextBalance ==
    \/ /\ \E ft \in Transfers, amounts \in AmountPairs :
              update_balances(ft[1], ft[2], amounts)
       /\ UNCHANGED pending
    \/ /\ \E ft \in Transfers, amounts \in AmountPairs :
              undo_balance_update(ft[1], ft[2], amounts)
       /\ UNCHANGED pending

SpecBalance == InitBalance /\ [][NextBalance]_vars

(* The ledger with a transfer and its later undo paired up. A caller that
   made a successful transfer while every minimum held may come back with
   undo_balance_update for it; until then other callers' transfers run. The
   pairing is dropped by a failed call and by any undo. *)
LedgerKey(id) == balance_key(accounts[id].asset_code, id)

AtOrAboveMinimum(bal) ==
    \A id \in DOMAIN accounts :
        IsSome(accounts[id].min_balance) =>
            bal[LedgerKey(id)] >= Unwrap(accounts[id].min_balance)

ExactAmountPairs == {<<3, 3>>, <<2, 1>>}

AwaitUndo ==
    \/ /\ last'.ok
       /\ pending = None
       /\ AtOrAboveMinimum(balances)
       /\ pending' = Some([from |-> last'.from, to |-> last'.to,
                            incoming_amount |-> last'.incoming_amount,
                            outgoing_amount |-> last'.outgoing_amount])
    \/ /\ last'.ok
       /\ pending' = pending
    \/ /\ ~last'.ok
       /\ pending' = None

NextUndo ==
    \/ /\ \E ft \in Transfers, amounts \in ExactAmountPairs :
              update_balances(ft[1], ft[2], amounts)
       /\ AwaitUndo
    \/ /\ \E ft \in Transfers, amounts \in ExactAmountPairs :
              undo_balance_update(ft[1], ft[2], amounts)
       /\ pending' = None

SpecUndo == InitBalance /\ [][NextUndo]_vars

(* The routing refresh as the backend sees it when a second store, with a
   connection of its own, writes the same route tables. The pipeline of
   update_routes is not a MULTI/EXEC, so the backend runs its two HGETALL as
   two commands and may run another connection's commands between them. *)
MaxInterleaved == 2

(* update_routes, the pipeline's first command: HGETALL routes:current.
   instants is history: the pairs of tables the backend went through since
   this read. *)
UpdateRoutesReadDynamic(t) ==
    /\ task[t].pc = "update_routes"
    /\ task' = [task EXCEPT ![t] =
                   [pc |-> "read_static", dynamic |-> routes,
                    instants |-> {<<routes, static_routes>>}]]
    /\ UNCHANGED <<backend, routing_table, issued, last,
                   exchange_rates, connection, pending>>

(* update_routes, the pipeline's second command: HGETALL routes:static, and
   the merge the closure makes of the two replies. *)
UpdateRoutesReadStatic(t) ==
    /\ task[t].pc = "read_static"
    /\ task' = [task EXCEPT ![t] =
                   [pc |-> "write_cache",
                    table |-> MergeRoutes(task[t].dynamic, static_routes),
                    instants |-> task[t].instants]]
    /\ UNCHANGED <<backend, routing_table, issued, last,
                   exchange_rates, connection, pending>>

(* The backend's new pair of tables is noted for every refresh that is
   between its two reads. *)
Observe ==
    /\ \A t \in Tasks :
           task[t].pc = "read_static"
               => Cardinality(task[t].instants) <= MaxInterleaved
    /\ task' = [t \in Tasks |->
                   IF task[t].pc = "read_static"
                   THEN [task[t] EXCEPT
                            !.instants = @ \cup {<<routes', static_routes'>>}]
                   ELSE task[t]]

(* set_routes of the second store: DEL and HMSET in one MULTI/EXEC. *)
SetRoutesByPeer ==
    /\ \E new_routes \in RouteTables :
           routes' = ReplaceTable(routes, new_routes).table
    /\ UNCHANGED <<next_account_id, accounts, balances, btp_auth, http_auth,
                   xrp_addresses, send_routes_to, static_routes, routing_table,
                   issued, last, rates, exchange_rates, connection, pending>>

(* set_static_route of the second store, for an account that exists. *)
SetStaticRouteByPeer ==
    /\ \E prefix \in Prefixes, account_id \in {0} :
           /\ EXISTS(account_id)
           /\ static_routes' = HSet(static_routes, prefix, account_id)
    /\ UNCHANGED <<next_account_id, accounts, balances, btp_auth, http_auth,
                   xrp_addresses, send_routes_to, routes, routing_table,
                   issued, last, rates, exchange_rates, connection, pending>>

NextPipeline ==
    \/ PollRoutesTick("poll_routes")
    \/ UpdateRoutesReadDynamic("poll_routes")
    \/ UpdateRoutesReadStatic("poll_routes")
    \/ UpdateRoutesQueryFails("poll_routes")
    \/ UpdateRoutesWriteCache("poll_routes")
    \/ (SetRoutesByPeer /\ Observe)
    \/ (SetStaticRouteByPeer /\ Observe)

SpecPipeline == InitBalance /\ [][NextPipeline]_vars

---------------------------------------------------------------------------
(* Properties of the balance ledger *)

(* The transfer as the contract states it: from is debited incoming_amount
   and to is credited outgoing_amount, in exact integers. *)
ExactTransfer(bal, r) ==
    LET debited == HSet(bal, LedgerKey(r.from), bal[LedgerKey(r.from)] - r.incoming_amount)
    IN  HSet(debited, LedgerKey(r.to), debited[LedgerKey(r.to)] + r.outgoing_amount)

(* C1: every update_balances call takes effect as a unit: when the calls keep
   every account at or above its minimum, a successful call changes the two
   balances by exactly its amounts and a failed call changes nothing, so the
   final balances are those of the successful calls applied one after
   another, no debit or credit lost or applied twice. *)
C1_TransfersApplyExactlyOnce ==
    [][(/\ last'.op = "update_balances"
        /\ AtOrAboveMinimum(balances)
        /\ AtOrAboveMinimum(ExactTransfer(balances, last')))
       => balances' = IF last'.ok THEN ExactTransfer(balances, last') ELSE balances]_vars

(* C2: when from_account has a min_balance and its balance is less than
   min_balance + incoming_amount, update_balances fails and both balances
   are what they were. *)
C2_BelowMinimumFailsUnchanged ==
    [][(/\ last'.op = "update_balances"
        /\ IsSome(accounts[last'.from].min_balance)
        /\ balances[LedgerKey(last'.from)]
               < Unwrap(accounts[last'.from].min_balance) + last'.incoming_amount)
       => (~last'.ok /\ balances' = balances)]_vars

(* C3: right after a successful update_balances the debited account is at or
   above its min_balance, when it has one. *)
C3_DebitedStaysAboveMinimum ==
    [][(/\ last'.op = "update_balances"
        /\ last'.ok
        /\ IsSome(accounts[last'.from].min_balance))
       => balances'[LedgerKey(last'.from)] >= Unwrap(accounts[last'.from].min_balance)]_vars

SameCall(r, q) ==
    /\ r.from = q.from
    /\ r.to = q.to
    /\ r.incoming_amount = q.incoming_amount
    /\ r.outgoing_amount = q.outgoing_amount

(* C4: undo_balance_update(A, x, B, y) right after a successful
   update_balances(A, x, B, y) leaves both balances as they were before the
   transfer. *)
C4_UndoRestoresBalances ==
    [][(/\ last.op = "update_balances"
        /\ last.ok
        /\ last'.op = "undo_balance_update"
        /\ SameCall(last, last'))
       => balances' = last.pre]_vars

---------------------------------------------------------------------------
(* Properties of the account repository *)

InsertTasks == {"i1", "i2"}

(* C5: the ids handed out are pairwise distinct and each later one is greater
   than every earlier one, whether the registrations they went to succeeded
   or were rejected. *)
C5_IdsStrictlyIncreasing ==
    \A i \in 1..Len(issued) : \A j \in 1..Len(issued) :
        i < j => issued[i] < issued[j]

(* Two ids were handed out, the first to a registration that was rejected,
   the second to one that was stored. *)
C5_Witness ==
    /\ Len(issued) = 2
    /\ issued[1] \notin DOMAIN accounts
    /\ issued[2] \in DOMAIN accounts

(* Some stored account record carries this credential or address. *)
RegisteredWith(field, value) ==
    \E id \in DOMAIN accounts : accounts[id][field] = value

DuplicatesRegistered(d) ==
    \/ /\ IsSome(d.btp_incoming_authorization)
       /\ RegisteredWith("btp_incoming_authorization", d.btp_incoming_authorization)
    \/ /\ IsSome(d.http_incoming_authorization)
       /\ RegisteredWith("http_incoming_authorization", d.http_incoming_authorization)
    \/ /\ IsSome(d.xrp_address)
       /\ RegisteredWith("xrp_address", d.xrp_address)

registry == <<accounts, balances, btp_auth, http_auth, xrp_addresses,
              send_routes_to, routes>>

(* C6: a registration whose BTP token, HTTP token or settlement address is
   that of a registered account fails at its existence checks, and the steps
   of a failing registration (the allocation, the checks) leave the ledgers,
   the indices, send_routes_to, the routes and the records as they were. *)
C6_DuplicateRejectedNothingWritten ==
    [][\A t \in InsertTasks :
          /\ (task[t].pc = "check" /\ task'[t] # task[t]
              /\ DuplicatesRegistered(task[t].details))
             => (task'[t].pc = "idle" /\ task'[t].result = "Err")
          /\ (task'[t] # task[t] /\ task'[t].pc = "idle" /\ task'[t].result = "Err")
             => registry' = registry
          /\ (task[t].pc = "idle" /\ task'[t] # task[t] /\ task'[t].pc = "check")
             => registry' = registry]_vars

(* A registration was rejected for a credential or address in use. *)
C6_Witness ==
    \E t \in InsertTasks :
        /\ task[t].pc = "idle"
        /\ task[t].result = "Err"
        /\ "conflict" \in DOMAIN task[t]
        /\ task[t].conflict \in {"BTP auth", "HTTP auth", "XRP address"}

(* C7: no two stored account records carry the same BTP token, the same HTTP
   token or the same settlement address. *)
C7_CredentialsUnique ==
    \A i \in DOMAIN accounts : \A j \in DOMAIN accounts :
        i # j =>
            \A f \in {"btp_incoming_authorization", "http_incoming_authorization",
                      "xrp_address"} :
                IsSome(accounts[i][f]) => accounts[i][f] # accounts[j][f]

(* C10: get_accounts returns Ok only with one stored record per requested id,
   in the order asked; when it fails it returns no account at all. *)
C10_GetAccountsAllOrNothing ==
    LET g == task["g1"]
    IN  "account_ids" \in DOMAIN g =>
            /\ g.result = "Ok" =>
                   /\ Len(g.accounts) = Len(g.account_ids)
                   /\ \A i \in 1..Len(g.account_ids) :
                          /\ g.account_ids[i] \in DOMAIN accounts
                          /\ g.accounts[i] = accounts[g.account_ids[i]]
            /\ g.result = "Err" => g.accounts = << >>

(* get_accounts failed on a list naming a registered and a never registered
   id. *)
C10_Witness ==
    LET g == task["g1"]
    IN  /\ "account_ids" \in DOMAIN g
        /\ g.result = "Err"
        /\ \E i \in 1..Len(g.account_ids) : g.account_ids[i] \in DOMAIN accounts
        /\ \E i \in 1..Len(g.account_ids) : g.account_ids[i] >= MaxAccounts

---------------------------------------------------------------------------
(* Properties of the routing table *)

(* C8: once the caller's calls have completed, the snapshot routing_table()
   returns maps every prefix of the static table to the static table's id and
   every other prefix of the dynamic table to the dynamic table's id. *)
C8_StaticOverDynamic ==
    task["a1"].pc = "idle" =>
        /\ \A p \in DOMAIN static_routes :
               /\ p \in DOMAIN RoutingTableSnapshot
               /\ RoutingTableSnapshot[p] = static_routes[p]
        /\ \A p \in DOMAIN routes \ DOMAIN static_routes :
               /\ p \in DOMAIN RoutingTableSnapshot
               /\ RoutingTableSnapshot[p] = routes[p]

(* C9: set_static_route fails when its account has no record, and
   set_static_routes when one of its accounts has none; the steps of the
   failing call leave the static route table and the routing cache as they
   were. *)
C9_MissingAccountRejected ==
    [][LET a == task["a1"]
       IN  /\ (a.pc = "static_route_exists" /\ task'["a1"] # a
               /\ a.account_id \notin DOMAIN accounts)
              => (/\ task'["a1"] = Rejected("set_static_route")
                  /\ static_routes' = static_routes
                  /\ routing_table' = routing_table)
           /\ (a.pc = "static_routes_exist" /\ task'["a1"] # a
               /\ \E id \in ReferencedAccounts(a.routes) : id \notin DOMAIN accounts)
              => (/\ task'["a1"] = Rejected("set_static_routes")
                  /\ static_routes' = static_routes
                  /\ routing_table' = routing_table)
           /\ (a.pc = "idle" /\ task'["a1"] # a
               /\ task'["a1"].pc \in {"static_route_exists", "static_routes_exist"})
              => (/\ static_routes' = static_routes
                  /\ routing_table' = routing_table)]_vars

(* set_static_routes failed while an account, a static route and a cached
   route exist. *)
C9_Witness ==
    /\ task["a1"] = Rejected("set_static_routes")
    /\ accounts # EmptyMap
    /\ static_routes # EmptyMap
    /\ routing_table # EmptyMap

---------------------------------------------------------------------------
(* Properties of the exchange rates *)

(* The rate table the backend holds, as rates. *)
StoredRates == [c \in DOMAIN rates |-> FromRedisValue(rates[c])]

(* What get_exchange_rates is to return for the codes when the table is P:
   the rates of P in the order asked, or a failure with no rate at all. *)
RatesOf(P, asset_codes) ==
    IF \A i \in 1..Len(asset_codes) : asset_codes[i] \in DOMAIN P
    THEN [result |-> "Ok",
          rates |-> [i \in 1..Len(asset_codes) |-> P[asset_codes[i]]]]
    ELSE [result |-> "Err", rates |-> << >>]

(* C11: a get_exchange_rates that the caller makes after its set_rates(P)
   returned Ok, with no rate write since, succeeds exactly when every code
   asked for is a key of P, with the rates of P in the order asked, and fails
   with no rate otherwise. *)
C11_RatesOfLastSetRates ==
    [][LET g == task["r1"]
           h == task'["r1"]
       IN  (g.pc = "get_exchange_rates" /\ h.pc = "idle" /\ g.after_ok)
           => /\ h.result = RatesOf(StoredRates, g.asset_codes).result
              /\ h.rates = RatesOf(StoredRates, g.asset_codes).rates]_vars

---------------------------------------------------------------------------
(* Properties of the caches *)

(* C12: while the last call of the one caller that writes the route tables
   (set_routes, set_static_route, set_static_routes, insert_account) has
   returned Ok and it has made no write since, the routing cache is the
   backend's merged table; likewise the rate cache is the backend's rate
   table after set_rates returned Ok; the polling loops run beside. *)
C12_WriteThrough ==
    /\ task["a1"] = Returned("Ok")
           => routing_table = MergeRoutes(routes, static_routes)
    /\ task["r1"] = Returned("Ok") => exchange_rates = StoredRates

---------------------------------------------------------------------------
(* Properties of the polling loops *)

PollingLoops == {"poll_rates", "poll_routes"}

(* The loop has ended: its for_each has resolved with an error. *)
Ended(loop) == loop.pc = "idle" /\ loop.result = "Err"

(* C13: a polling loop ends only at a tick at which the connection can no
   longer be upgraded; while the connection is held no step ends a loop, a
   failing backend read included. *)
C13_LoopEndsOnlyWhenClosed ==
    [][\A l \in PollingLoops :
          (~Ended(task[l]) /\ Ended(task'[l]))
          => (task[l].pc = "idle" /\ connection = "dropped")]_vars

(* C14: a tick of a polling loop after the connection was dropped issues no
   backend read, fails and leaves both caches alone, and a loop that has
   ended takes no further step: it never reads the backend nor writes a
   cache again. *)
C14_NoWorkAfterDrop ==
    [][\A l \in PollingLoops :
          /\ (task[l].pc = "idle" /\ task'[l] # task[l] /\ connection = "dropped")
             => (/\ task'[l] = ConnectionClosed
                 /\ routing_table' = routing_table
                 /\ exchange_rates' = exchange_rates)
          /\ Ended(task[l]) => task'[l] = task[l]]_vars

(* The store was dropped and both loops ended at their next tick, with
   rates in the backend and in the cache. *)
C14_Witness ==
    /\ connection = "dropped"
    /\ \A l \in PollingLoops : task[l] = ConnectionClosed
    /\ rates # EmptyMap
    /\ exchange_rates # EmptyMap

---------------------------------------------------------------------------
(* Properties of the readers *)

(* The tables a refresh can install in the rate cache, and the empty table
   the store starts with. *)
InstalledRateTables == RateTables \cup {EmptyMap}

(* C15: what a reader obtains is taken from one table as a whole: the result
   of get_exchange_rates is the one some single installed table gives for the
   codes asked, and the routing cache only ever changes to the complete table
   of one refresh. *)
C15_ReadersSeeOneTable ==
    [][/\ \A t \in {"r1", "q1"} :
              (task[t].pc = "get_exchange_rates" /\ task'[t].pc = "idle")
              => \E T \in InstalledRateTables :
                     /\ task'[t].result = RatesOf(T, task[t].asset_codes).result
                     /\ task'[t].rates = RatesOf(T, task[t].asset_codes).rates
       /\ routing_table' # routing_table
              => \E t \in DOMAIN task :
                     /\ task[t].pc = "write_cache"
                     /\ routing_table' = task[t].table]_vars

---------------------------------------------------------------------------
(* Properties of failing balance calls *)

(* C16: a failing update_balances or undo_balance_update, whatever made it
   fail, leaves the balances as they were: none of its two increments is
   applied. *)
C16_FailedCallChangesNothing ==
    [][(last'.op \in {"update_balances", "undo_balance_update"} /\ ~last'.ok)
       => balances' = balances]_vars

---------------------------------------------------------------------------
(* Properties of the credential lookups *)

(* The field of the account record that an index is built from. *)
CredentialField(index_name) ==
    IF index_name = "btp_auth" THEN "btp_incoming_authorization"
    ELSE "http_incoming_authorization"

(* C17: once the registrations have returned, none of them with an error, a
   lookup by a token returns exactly the account that was registered with it,
   for every registered account that carries the token; a lookup by a token
   that no stored account carries fails; and a lookup changes nothing in the
   backend. *)
C17_LookupReturnsRegisteredAccount ==
    [][LET g == task'["g1"]
       IN  (task["g1"] # g /\ "token" \in DOMAIN g)
           => /\ (\A t \in InsertTasks :
                      task[t].pc = "idle" /\ task[t].result # "Err")
                 => \A id \in DOMAIN accounts :
                        accounts[id][CredentialField(g.index)] = Some(g.token)
                        => g.account = Some([id |-> id, details |-> accounts[id]])
              /\ (~RegisteredWith(CredentialField(g.index), Some(g.token)))
                     => (g.result = "Err" /\ g.account = None)
              /\ UNCHANGED backend]_vars

---------------------------------------------------------------------------
(* Properties of the conflicts *)

(* The token or address is an entry of the index. *)
Collides(field, index) == IsSome(field) /\ Unwrap(field) \in DOMAIN index

(* The first colliding field in the order id/balance slot, BTP token, HTTP
   token, settlement address; "none" when nothing collides. *)
FirstCollision(id, d) ==
    IF id \in DOMAIN accounts \/ balance_key(d.asset_code, id) \in DOMAIN balances
    THEN "ID"
    ELSE IF Collides(d.btp_incoming_authorization, btp_auth) THEN "BTP auth"
    ELSE IF Collides(d.http_incoming_authorization, http_auth) THEN "HTTP auth"
    ELSE IF Collides(d.xrp_address, xrp_addresses) THEN "XRP address"
    ELSE "none"

(* C18: the existence checks of a registration reject it exactly when one of
   its fields collides, and the conflict they report names the first
   colliding field in the order id/balance slot, BTP token, HTTP token,
   settlement address, whichever optional fields are present. *)
C18_ConflictNamesFirstCollision ==
    [][\A t \in InsertTasks :
          (task[t].pc = "check" /\ task'[t] # task[t])
          => LET first == FirstCollision(task[t].id, task[t].details)
             IN  IF first = "none"
                 THEN task'[t].pc = "write"
                 ELSE /\ task'[t].result = "Err"
                      /\ task'[t].conflict = first]_vars

(* A registration without a BTP token, colliding on its HTTP token and on
   its settlement address, was rejected for its HTTP token. *)
C18_Witness ==
    \E t \in InsertTasks :
        /\ "conflict" \in DOMAIN task[t]
        /\ task[t].conflict = "HTTP auth"
        /\ task[t].details.btp_incoming_authorization = None
        /\ Collides(task[t].details.xrp_address, xrp_addresses)

---------------------------------------------------------------------------
(* Properties of the registration's writes *)

(* The record of id, its balance entry, its index entries and its place in
   send_routes_to are there together. *)
RegistrationComplete(id) ==
    LET d == accounts[id]
    IN  /\ balance_key(d.asset_code, id) \in DOMAIN balances
        /\ IsSome(d.btp_incoming_authorization)
               => Unwrap(d.btp_incoming_authorization) \in DOMAIN btp_auth
        /\ IsSome(d.http_incoming_authorization)
               => Unwrap(d.http_incoming_authorization) \in DOMAIN http_auth
        /\ IsSome(d.xrp_address) => Unwrap(d.xrp_address) \in DOMAIN xrp_addresses
        /\ (id \in send_routes_to) <=> d.send_routes

(* C19: in every state an account record exists exactly when the ledger of
   its lowercased asset code has a balance entry for its id, and a record
   that exists has its index entries and is in send_routes_to exactly when
   send_routes is true; the balance entry a registration writes is zero. *)
C19_RegistrationWritesTogether ==
    /\ [](/\ \A id \in DOMAIN accounts : RegistrationComplete(id)
          /\ \A key \in DOMAIN balances :
                 /\ key[2] \in DOMAIN accounts
                 /\ key = balance_key(accounts[key[2]].asset_code, key[2]))
    /\ [][\A id \in DOMAIN accounts' \ DOMAIN accounts :
              balances'[balance_key(accounts'[id].asset_code, id)] = 0]_vars

(* Two accounts are registered, one with all three credentials and
   send_routes, one without send_routes. *)
C19_Witness ==
    /\ \E id \in DOMAIN accounts :
           /\ IsSome(accounts[id].btp_incoming_authorization)
           /\ IsSome(accounts[id].http_incoming_authorization)
           /\ IsSome(accounts[id].xrp_address)
           /\ accounts[id].send_routes
    /\ \E id \in DOMAIN accounts : ~accounts[id].send_routes

---------------------------------------------------------------------------
(* Properties of the static route writes *)

(* C20: the write of a successful set_static_routes(P) leaves the static
   table equal to P; the write of set_static_route(p, a) leaves it as it was
   but for p, which maps to a; neither write changes the dynamic table, and
   from the write until the call returns neither table changes. *)
C20_ReplaceAndMerge ==
    [][LET a == task["a1"]
       IN  /\ (a.pc = "static_routes_replace" /\ task'["a1"].pc = "update_routes")
              => (static_routes' = a.routes /\ routes' = routes)
           /\ (a.pc = "static_route_hset" /\ task'["a1"] # a)
              => /\ static_routes' =
                        [p \in DOMAIN static_routes \cup {a.prefix} |->
                            IF p = a.prefix THEN a.account_id ELSE static_routes[p]]
                 /\ routes' = routes
           /\ a.pc \in {"update_routes", "write_cache"}
              => (static_routes' = static_routes /\ routes' = routes)]_vars

(* set_static_routes has replaced a table that held a prefix its argument
   does not, and set_static_route had added a route to a table that kept its
   other route. *)
C20_Witness ==
    LET a == task["a1"]
    IN  /\ a.pc = "update_routes"
        /\ "deleted" \in DOMAIN a
        /\ DOMAIN a.deleted = Prefixes
        /\ DOMAIN static_routes # Prefixes

---------------------------------------------------------------------------
(* Properties of the transfer's success *)

(* C21: update_balances succeeds, debiting from_account by incoming_amount
   and crediting to_account by outgoing_amount, whenever from_account has no
   min_balance or its balance is at least min_balance + incoming_amount;
   nothing else (no maximum, no lower limit of an account without
   min_balance) makes it fail. *)
C21_SucceedsWhenMinimumAllows ==
    [][(/\ last'.op = "update_balances"
        /\ \/ accounts[last'.from].min_balance = None
           \/ balances[LedgerKey(last'.from)]
                  >= Unwrap(accounts[last'.from].min_balance) + last'.incoming_amount)
       => (last'.ok /\ balances' = ExactTransfer(balances, last'))]_vars

---------------------------------------------------------------------------
(* Properties of the undo *)

(* The undo as the contract states it: from is credited incoming_amount and
   to is debited outgoing_amount, in exact integers. *)
ExactUndo(bal, r) ==
    LET credited == HSet(bal, LedgerKey(r.from), bal[LedgerKey(r.from)] + r.incoming_amount)
    IN  HSet(credited, LedgerKey(r.to), credited[LedgerKey(r.to)] - r.outgoing_amount)

(* C22: for every pair of amounts a successful undo_balance_update raises
   from_account's balance by exactly incoming_amount and lowers to_account's
   by exactly outgoing_amount. *)
C22_UndoAppliesExactAmounts ==
    [][(last'.op = "undo_balance_update" /\ last'.ok)
       => balances' = ExactUndo(balances, last')]_vars

(* C23: when every account with a min_balance was at or above it before a
   successful update_balances, and only other successful update_balances
   calls ran in between, the matching undo_balance_update leaves every such
   account at or above its minimum again. *)
C23_UndoKeepsMinimums ==
    [][(/\ IsSome(pending)
        /\ last'.op = "undo_balance_update"
        /\ last'.ok
        /\ SameCall(Unwrap(pending), last'))
       => AtOrAboveMinimum(balances')]_vars

(* Properties of the caches over time *)

RatesCacheCurrent ==
    exchange_rates = [c \in DOMAIN rates |-> FromRedisValue(rates[c])]

RoutesCacheCurrent == routing_table = MergeRoutes(routes, static_routes)

BackendReadFails ==
    \E t \in Tasks : UpdateRatesQueryFails(t) \/ UpdateRoutesQueryFails(t)

BackendQuiet ==
    /\ ~BackendReadFails
    /\ UNCHANGED <<rates, routes, static_routes>>

(* C24: while the store is alive, once the backend is reachable (no read of
   it fails any more) and its rate and route tables have stopped changing,
   the caches come to equal the backend rate table and the static-over-dynamic
   merge of the route tables, and stay equal. *)
C24_CachesConverge ==
    ([](connection = "held") /\ <>[][BackendQuiet]_vars)
        => <>[](RatesCacheCurrent /\ RoutesCacheCurrent)

(* C25: the routing cache never goes back to an older backend version: while
   it shows the merge of the route tables as they stand, and those tables
   stay as they are, no refresh that overlapped another one replaces it with
   a table read earlier. *)
C25_CacheNeverGoesBack ==
    [][(RoutesCacheCurrent /\ UNCHANGED <<routes, static_routes>>)
       => routing_table' = routing_table]_vars

(* C26: every table a routing refresh installs is the static-over-dynamic
   merge of the two backend tables as they both stood at one instant between
   the refresh's two reads. *)
C26_InstalledTableOfOneInstant ==
    [][\A t \in Tasks :
          (UpdateRoutesWriteCache(t) /\ "instants" \in DOMAIN task[t])
              => routing_table' \in {MergeRoutes(p[1], p[2]) : p \in task[t].instants}]_vars

(* Properties of the routes of registered accounts *)

CallsCompleted == \A t \in Tasks : task[t].pc = "idle"

(* C27: once the calls made so far have completed and the cache shows the
   backend's tables, routing_table() holds the address of every registered
   account, mapped to that account's id unless a static route overrides it. *)
C27_RegisteredAddressesRouted ==
    (CallsCompleted /\ RoutesCacheCurrent)
        => \A id \in DOMAIN accounts :
               LET prefix == accounts[id].ilp_address
               IN  /\ prefix \in DOMAIN RoutingTableSnapshot
                   /\ prefix \notin DOMAIN static_routes
                          => RoutingTableSnapshot[prefix] = id

=============================================================================
